---------------------------- MODULE Spec2Model ----------------------------
(***************************************************************************)
(* A model of the Bible verse Discord bot (src/main.go): configuration     *)
(* loading, the lifecycle of main, the message handler messageCreate with  *)
(* its sends, and the verse fetch getBibleVerse.                           *)
(*                                                                         *)
(* Strings of the program are sequences of one-character strings, so that  *)
(* strings.HasPrefix, strings.TrimPrefix and strings.Fields are computed   *)
(* character by character.                                                 *)
(***************************************************************************)
EXTENDS Integers, Sequences, FiniteSets, TLC

(***************************************************************************)
(* Bounds of the model.                                                    *)
(***************************************************************************)
\* handler goroutines the SDK runs at the same time
MaxHandlers == 2
\* messages the platform delivers from outside in one run
MaxMsgs == 2
\* pieces a message content is assembled from
MaxPieces == 4
\* length in bytes of a small JSON document of a response body
DocLen == 40

(***************************************************************************)
(* Constants of the program.                                               *)
(***************************************************************************)
Prefix == <<"!">>

BodyLimit == 10 * 1024

StatusOK == 200

EmbedColor == 3447003

EmbedTitle == "Daily Bible Verse"

HelloText ==
    <<"H", "e", "l", "l", "o", "!", " ", "I", "'", "m", " ", "y", "o", "u",
      "r", " ", "B", "i", "b", "l", "e", " ", "v", "e", "r", "s", "e", " ",
      "b", "o", "t", ".", " ", "T", "y", "p", "e", " ", "!", "v", "e", "r",
      "s", "e", " ", "f", "o", "r", " ", "a", " ", "r", "a", "n", "d", "o",
      "m", " ", "v", "e", "r", "s", "e", "!">>

PongText ==
    <<"P", "o", "n", "g", "!", " ", "U+1F3D3">>

ApologyText ==
    <<"S", "o", "r", "r", "y", ",", " ", "I", " ", "c", "o", "u", "l", "d",
      "n", "'", "t", " ", "r", "e", "t", "r", "i", "e", "v", "e", " ", "a",
      " ", "v", "e", "r", "s", "e", " ", "r", "i", "g", "h", "t", " ", "n",
      "o", "w", ".">>

UnknownText ==
    <<"U", "n", "k", "n", "o", "w", "n", " ", "c", "o", "m", "m", "a", "n",
      "d", ".", " ", "T", "r", "y", " ", "!", "h", "e", "l", "l", "o", ",",
      " ", "!", "p", "i", "n", "g", ",", " ", "o", "r", " ", "!", "v", "e",
      "r", "s", "e">>

CmdHello == <<"h", "e", "l", "l", "o">>

CmdPing == <<"p", "i", "n", "g">>

CmdVerse == <<"v", "e", "r", "s", "e">>

(***************************************************************************)
(* The string functions messageCreate uses.                                *)
(***************************************************************************)
\* unicode.IsSpace on the characters of the model's alphabet
IsSpace(c) == c \in {" ", "\t", "\n", "\r", "\f", "U+00A0"}

HasPrefixTrimmed(s, p) ==
    \E i \in 0..Len(s) :
        /\ \A j \in 1..i : IsSpace(s[j])
        /\ Len(s) - i >= Len(p)
        /\ SubSeq(s, i + 1, i + Len(p)) = p

\* strings.HasPrefix
HasPrefix(s, p) == Len(s) >= Len(p) /\ SubSeq(s, 1, Len(p)) = p

\* strings.TrimPrefix: removes one leading p, when there is one
TrimPrefix(s, p) ==
    IF HasPrefix(s, p) THEN SubSeq(s, Len(p) + 1, Len(s)) ELSE s

RECURSIVE FieldsFrom(_, _, _, _)
\* the scan of strings.Fields: i is the next character, cur the field being
\* read, acc the fields already closed
FieldsFrom(s, i, cur, acc) ==
    IF i > Len(s)
    THEN IF cur = <<>> THEN acc ELSE Append(acc, cur)
    ELSE IF IsSpace(s[i])
         THEN FieldsFrom(s, i + 1, <<>>,
                         IF cur = <<>> THEN acc ELSE Append(acc, cur))
         ELSE FieldsFrom(s, i + 1, Append(cur, s[i]), acc)

FieldsNoSplit(s) == IF s = <<>> THEN <<>> ELSE <<s>>

\* strings.Fields
Fields(s) == FieldsFrom(s, 1, <<>>, <<>>)


(***************************************************************************)
(* The verse fetch.  A response body is a byte stream, kept as a sequence  *)
(* of runs [k, n, whole]: n bytes of kind k, where k is "object" (a JSON   *)
(* object with the fields of BibleVerse), "array" (well-formed JSON of     *)
(* another shape), "garbage" (no JSON) or "ws" (JSON whitespace), and      *)
(* whole says that the run is a complete value (FALSE once it is cut).     *)
(* failAt is the number of bytes the stream delivers before a read error,  *)
(* or -1 for a stream that ends normally.                                  *)
(***************************************************************************)
Run(k, n) == [k |-> k, n |-> n, whole |-> TRUE]

RECURSIVE BodyLen(_)
BodyLen(runs) == IF runs = <<>> THEN 0 ELSE Head(runs).n + BodyLen(Tail(runs))

RECURSIVE TakeBytes(_, _)
\* the first n bytes of a stream: what io.LimitReader lets through
TakeBytes(runs, n) ==
    IF runs = <<>> \/ n = 0 THEN <<>>
    ELSE IF Head(runs).n <= n
         THEN <<Head(runs)>> \o TakeBytes(Tail(runs), n - Head(runs).n)
         ELSE <<[k |-> Head(runs).k, n |-> n, whole |-> FALSE]>>

\* type BibleVerse, and the value a well-formed object decodes to
NoVerse == [Translation |-> "", RandomVerse |-> ""]

SampleVerse == [Translation |-> "name: WEB", RandomVerse |-> "book: John"]

NoResult == [err |-> "none", verse |-> NoVerse]

\* json.Unmarshal(body, &verse): the input is one complete JSON object,
\* with whitespace around it at most
Unmarshal(data) ==
    LET vals == SelectSeq(data, LAMBDA r : r.k # "ws")
    IN  IF Len(vals) = 1 /\ vals[1].k = "object" /\ vals[1].whole
        THEN [err |-> "", verse |-> SampleVerse]
        ELSE [err |-> "parse", verse |-> NoVerse]

\* io.ReadAll(io.LimitReader(resp.Body, limit)): a read error is met only
\* when the stream fails before limit bytes have been delivered
ReadAllLimited(body, limit) ==
    IF body.failAt >= 0 /\ body.failAt < limit
    THEN [err |-> TRUE, data |-> <<>>]
    ELSE [err |-> FALSE, data |-> TakeBytes(body.runs, limit)]

\* getBibleVerse, given what the endpoint answers to client.Get
getBibleVerse(resp) ==
    IF resp.getErr THEN [err |-> "request", verse |-> NoVerse]
    ELSE IF resp.StatusCode # StatusOK
         THEN [err |-> "status", verse |-> NoVerse]
         ELSE LET rd == ReadAllLimited(resp.Body, BodyLimit)
              IN  IF rd.err THEN [err |-> "read", verse |-> NoVerse]
                  ELSE Unmarshal(rd.data)

\* createVerseEmbed: the card of a verse (the description lists the two
\* mappings of the verse under their headers)
createVerseEmbed(verse) ==
    [Title |-> EmbedTitle, Color |-> EmbedColor,
     Translation |-> verse.Translation, RandomVerse |-> verse.RandomVerse]

NoEmbed == [Title |-> "", Color |-> 0, Translation |-> "", RandomVerse |-> ""]

(***************************************************************************)
(* The answers of the endpoint the model draws from.                       *)
(***************************************************************************)
Bodies ==
    { <<>>,
      <<Run("object", DocLen)>>,
      <<Run("garbage", DocLen)>>,
      <<Run("array", DocLen)>>,
      <<Run("ws", 1), Run("object", DocLen), Run("ws", 1)>>,
      <<Run("object", DocLen), Run("object", DocLen)>>,
      <<Run("object", DocLen), Run("ws", BodyLimit - DocLen)>>,
      <<Run("object", DocLen), Run("ws", BodyLimit - DocLen),
        Run("garbage", 1)>>,
      <<Run("object", DocLen), Run("ws", BodyLimit)>>,
      <<Run("object", BodyLimit + DocLen)>> }

FailPoints(runs) == {-1} \cup {e \in {0, BodyLimit} : e <= BodyLen(runs)}

NoResp == [getErr |-> FALSE, StatusCode |-> 0,
           Body |-> [runs |-> <<>>, failAt |-> -1]]

Responses ==
    { [getErr |-> TRUE, StatusCode |-> 0,
       Body |-> [runs |-> <<>>, failAt |-> -1]] }
    \cup { [getErr |-> FALSE, StatusCode |-> c,
            Body |-> [runs |-> <<Run("object", DocLen)>>, failAt |-> -1]] :
           c \in {404, 500} }
    \cup UNION { { [getErr |-> FALSE, StatusCode |-> StatusOK,
                    Body |-> [runs |-> b, failAt |-> e]] :
                   e \in FailPoints(b) } : b \in Bodies }

(***************************************************************************)
(* Configuration.  The process environment and the settings file map the   *)
(* two variables the program reads to a value, or to Unset.                *)
(***************************************************************************)
Unset == "<unset>"

EnvKeys == {"DISCORD_BOT_TOKEN", "DEBUG"}

\* os.Getenv: the empty string for a variable that is not set
Getenv(e, k) == IF e[k] = Unset THEN "" ELSE e[k]

\* godotenv.Load(EnvFileName): fails when the file cannot be read; sets the
\* variables of the file that the environment does not hold yet
godotenvLoad(e, file) ==
    IF ~file.exists
    THEN [err |-> TRUE, env |-> e]
    ELSE [err |-> FALSE,
          env |-> [k \in EnvKeys |-> IF e[k] = Unset THEN file.vars[k] ELSE e[k]]]

NoConfig == [DiscordToken |-> "", Debug |-> FALSE]

loadConfigurationNoCheck(e, file) ==
    LET ld == godotenvLoad(e, file)
    IN  IF ld.err
        THEN [err |-> "load", config |-> NoConfig, env |-> ld.env]
        ELSE [err |-> "",
              config |-> [DiscordToken |-> Getenv(ld.env, "DISCORD_BOT_TOKEN"),
                          Debug |-> Getenv(ld.env, "DEBUG") = "true"],
              env |-> ld.env]

\* loadConfiguration
loadConfiguration(e, file) ==
    LET ld == godotenvLoad(e, file)
        cfg == [DiscordToken |-> Getenv(ld.env, "DISCORD_BOT_TOKEN"),
                Debug |-> Getenv(ld.env, "DEBUG") = "true"]
    IN  IF ld.err
        THEN [err |-> "load", config |-> NoConfig, env |-> ld.env]
        ELSE IF cfg.DiscordToken = ""
             THEN [err |-> "token", config |-> NoConfig, env |-> ld.env]
             ELSE [err |-> "", config |-> cfg, env |-> ld.env]

\* configureLogging: the flags of the logger
configureLogging(debug) == IF debug THEN "verbose" ELSE "minimal"

(***************************************************************************)
(* Messages and the handler messageCreate.                                 *)
(***************************************************************************)
\* s.State.User.ID
BotID == "bot"

Users == {BotID, "alice"}

Channels == {"general", "random"}

NoMsg == [AuthorID |-> "", ChannelID |-> "", Content |-> <<>>]

Messages(contents) ==
    [AuthorID : Users, ChannelID : Channels, Content : contents]

TextSend(channel, text) ==
    [kind |-> "text", ChannelID |-> channel, Content |-> text,
     Embed |-> NoEmbed]

EmbedSend(channel, embed) ==
    [kind |-> "embed", ChannelID |-> channel, Content |-> <<>>,
     Embed |-> embed]

messageCreateCommandAnswerSelf(m, selfID) ==
    IF ~HasPrefix(m.Content, Prefix) THEN "return"
    ELSE LET parts == Fields(TrimPrefix(m.Content, Prefix))
         IN  IF Len(parts) = 0 THEN "return"
             ELSE IF parts[1] = CmdHello THEN "hello"
             ELSE IF parts[1] = CmdPing THEN "ping"
             ELSE IF parts[1] = CmdVerse THEN "verse"
             ELSE "default"

\* messageCreate up to its switch: "return" for the three early returns,
\* else the case of the switch that is taken
messageCreateCommand(m, selfID) ==
    IF m.AuthorID = selfID THEN "return"
    ELSE IF ~HasPrefix(m.Content, Prefix) THEN "return"
    ELSE LET parts == Fields(TrimPrefix(m.Content, Prefix))
         IN  IF Len(parts) = 0 THEN "return"
             ELSE IF parts[1] = CmdHello THEN "hello"
             ELSE IF parts[1] = CmdPing THEN "ping"
             ELSE IF parts[1] = CmdVerse THEN "verse"
             ELSE "default"

\* the sends of the cases "hello", "ping" and default
CaseReplies(case, channel) ==
    IF case = "hello" THEN <<TextSend(channel, HelloText)>>
    ELSE IF case = "ping" THEN <<TextSend(channel, PongText)>>
    ELSE <<TextSend(channel, UnknownText)>>

VerseRepliesNoReturn(result, channel) ==
    IF result.err # ""
    THEN <<TextSend(channel, ApologyText),
           EmbedSend(channel, createVerseEmbed(result.verse))>>
    ELSE <<EmbedSend(channel, createVerseEmbed(result.verse))>>

VerseRepliesSwapped(result, channel) ==
    IF result.err = ""
    THEN <<TextSend(channel, ApologyText)>>
    ELSE <<EmbedSend(channel, createVerseEmbed(result.verse))>>

\* the sends of the case "verse", once getBibleVerse has returned
VerseReplies(result, channel) ==
    IF result.err # ""
    THEN <<TextSend(channel, ApologyText)>>
    ELSE <<EmbedSend(channel, createVerseEmbed(result.verse))>>

SafeSendFatal(ok) == IF ok THEN "sent" ELSE "fatal"

\* SafeSend and SafeSendEmbed: an error of the send is logged
SafeSend(ok) == IF ok THEN "sent" ELSE "logged"

IdleHandler ==
    [st |-> "idle", msg |-> NoMsg, fetched |-> FALSE, resp |-> NoResp,
     result |-> NoResult, todo |-> <<>>, sends |-> <<>>,
     afterFailure |-> FALSE]

\* messageCreate from its entry to its first blocking call
StartHandler(m) ==
    LET case == messageCreateCommand(m, BotID)
    IN  IF case = "return"
        THEN [IdleHandler EXCEPT !.st = "returned", !.msg = m]
        ELSE IF case = "verse"
        THEN [IdleHandler EXCEPT !.st = "fetching", !.msg = m,
                                 !.fetched = TRUE]
        ELSE [IdleHandler EXCEPT !.st = "sending", !.msg = m,
                                 !.todo = CaseReplies(case, m.ChannelID)]

(***************************************************************************)
(* The inputs: message contents.                                           *)
(***************************************************************************)
Pieces ==
    { Prefix, <<" ">>, <<"\t">>, <<"x">>, CmdHello, CmdPing, CmdVerse,
      <<"H", "e", "l", "l", "o">>, <<"P", "I", "N", "G">>,
      <<"b", "o", "g", "u", "s">> }

RECURSIVE Concats(_)
\* the contents made of at most n pieces
Concats(n) ==
    IF n = 0 THEN {<<>>}
    ELSE LET shorter == Concats(n - 1)
         IN  shorter \cup {c \o q : c \in shorter, q \in Pieces}

AllContents == Concats(MaxPieces)

\* the contents of the runs with several handlers
CoreContents ==
    { CmdHello, Prefix \o CmdHello, Prefix \o CmdPing, Prefix \o CmdVerse,
      Prefix \o <<"b", "o", "g", "u", "s">> }

(***************************************************************************)
(* State.                                                                  *)
(***************************************************************************)
VARIABLES
    pc,          \* where main is, or how the process ended
    env,         \* the process environment
    envFile,     \* the settings file .env
    config,      \* the AppConfig main holds
    configErr,   \* the error loadConfiguration returned to main
    logFlags,    \* the flags configureLogging set
    sessions,    \* sessions created by discordgo.New
    openCount,   \* calls of dg.Open
    closeCount,  \* calls of dg.Close
    conn,        \* the connection: Disconnected, Connected or Closing
    sigBuffered, \* a signal waits in the channel sc
    sigReceived, \* main has read a signal from sc
    closeLogged, \* the error of dg.Close was logged
    handlers,    \* the running invocations of messageCreate
    gateway,     \* the bot's own messages the platform has yet to deliver
    delivered,   \* messages delivered from outside
    nOthers,     \* handler invocations for messages of other authors
    nSends,      \* send attempts
    anyFailed    \* a send or a fetch has failed

vars == <<pc, env, envFile, config, configErr, logFlags, sessions, openCount, closeCount,
          conn, sigBuffered, sigReceived, closeLogged, handlers, gateway,
          delivered, nOthers, nSends, anyFailed>>

mainVars == <<pc, env, envFile, config, configErr, logFlags, sessions, openCount,
              closeCount, conn, sigBuffered, sigReceived, closeLogged>>

botVars == <<handlers, gateway, delivered, nOthers, nSends, anyFailed>>

H == 1..MaxHandlers

EnvFiles ==
    { [exists |-> FALSE, vars |-> [k \in EnvKeys |-> Unset]] }
    \cup { [exists |-> TRUE,
            vars |-> [k \in EnvKeys |->
                        IF k = "DISCORD_BOT_TOKEN" THEN t ELSE Unset]] :
           t \in {Unset, "filetoken"} }

Envs ==
    { [k \in EnvKeys |-> IF k = "DISCORD_BOT_TOKEN" THEN t ELSE d] :
      t \in {Unset, "", "token"}, d \in {Unset, "true"} }

Init ==
    /\ pc = "start"
    /\ env \in Envs
    /\ envFile \in EnvFiles
    /\ config = NoConfig
    /\ configErr = "pending"
    /\ logFlags = "default"
    /\ sessions = 0
    /\ openCount = 0
    /\ closeCount = 0
    /\ conn = "Disconnected"
    /\ sigBuffered = FALSE
    /\ sigReceived = FALSE
    /\ closeLogged = FALSE
    /\ handlers = [h \in H |-> IdleHandler]
    /\ gateway = <<>>
    /\ delivered = 0
    /\ nOthers = 0
    /\ nSends = 0
    /\ anyFailed = FALSE

(***************************************************************************)
(* main.                                                                   *)
(***************************************************************************)
\* main, lines 201-207: loadConfiguration and log.Fatalf on its error
MainLoadConfig ==
    /\ pc = "start"
    /\ LET r == loadConfiguration(env, envFile)
       IN  /\ env' = r.env
           /\ config' = r.config
           /\ configErr' = r.err
           /\ pc' = IF r.err # "" THEN "fatal" ELSE "configured"
    /\ UNCHANGED <<envFile, logFlags, sessions, openCount, closeCount, conn,
                   sigBuffered, sigReceived, closeLogged>>
    /\ UNCHANGED botVars

\* main, lines 207-217: configureLogging, discordgo.New, AddHandler
MainNewSession ==
    /\ pc = "configured"
    /\ logFlags' = configureLogging(config.Debug)
    /\ \E ok \in BOOLEAN :
          IF ok
          THEN sessions' = sessions + 1 /\ pc' = "session"
          ELSE sessions' = sessions /\ pc' = "fatal"
    /\ UNCHANGED <<env, envFile, config, configErr, openCount, closeCount, conn,
                   sigBuffered, sigReceived, closeLogged>>
    /\ UNCHANGED botVars

\* main, lines 220-229: dg.Open, log.Fatalf on its error, the deferred close
MainOpen ==
    /\ pc = "session"
    /\ openCount' = openCount + 1
    /\ \E ok \in BOOLEAN :
          IF ok
          THEN conn' = "Connected" /\ pc' = "connected"
          ELSE conn' = conn /\ pc' = "fatal"
    /\ UNCHANGED <<env, envFile, config, configErr, logFlags, sessions, closeCount,
                   sigBuffered, sigReceived, closeLogged>>
    /\ UNCHANGED botVars

\* main, lines 232-236: the channel sc and signal.Notify
MainNotify ==
    /\ pc = "connected"
    /\ pc' = "waiting"
    /\ UNCHANGED <<env, envFile, config, configErr, logFlags, sessions, openCount,
                   closeCount, conn, sigBuffered, sigReceived, closeLogged>>
    /\ UNCHANGED botVars

\* SIGINT or SIGTERM reaches the process: before signal.Notify the default
\* disposition ends it, after it the signal is put into sc (capacity 1)
Signal ==
    /\ pc \in {"start", "configured", "session", "connected", "waiting"}
    /\ IF pc = "waiting"
       THEN /\ ~sigBuffered
            /\ sigBuffered' = TRUE
            /\ pc' = pc
       ELSE /\ pc' = "killed"
            /\ sigBuffered' = sigBuffered
    /\ UNCHANGED <<env, envFile, config, configErr, logFlags, sessions, openCount,
                   closeCount, conn, sigReceived, closeLogged>>
    /\ UNCHANGED botVars

\* main, lines 237-240: the receive from sc, the log line, the return
MainReceive ==
    /\ pc = "waiting"
    /\ sigBuffered
    /\ sigBuffered' = FALSE
    /\ sigReceived' = TRUE
    /\ conn' = "Closing"
    /\ pc' = "closing"
    /\ UNCHANGED <<env, envFile, config, configErr, logFlags, sessions, openCount,
                   closeCount, closeLogged>>
    /\ UNCHANGED botVars

MainNoClose ==
    /\ pc = "closing"
    /\ conn' = conn
    /\ pc' = "exited"
    /\ UNCHANGED <<env, envFile, config, configErr, logFlags, sessions, openCount,
                   closeCount, closeLogged, sigBuffered, sigReceived>>
    /\ UNCHANGED botVars

\* main, lines 224-229: the deferred dg.Close, whose error is logged, and
\* the normal end of the process
MainClose ==
    /\ pc = "closing"
    /\ closeCount' = closeCount + 1
    /\ \E ok \in BOOLEAN : closeLogged' = ~ok
    /\ conn' = "Disconnected"
    /\ pc' = "exited"
    /\ UNCHANGED <<env, envFile, config, configErr, logFlags, sessions, openCount,
                   sigBuffered, sigReceived>>
    /\ UNCHANGED botVars

(***************************************************************************)
(* The handler invocations.  The SDK runs each in a goroutine of its own   *)
(* while the process lives and the connection is open.                     *)
(***************************************************************************)
Running == pc \in {"connected", "waiting", "closing"}

Free(h) == handlers[h].st \in {"idle", "returned"}

\* the slot a new invocation takes: the first one that is free
FirstFree(h) == Free(h) /\ \A k \in 1..(h - 1) : ~Free(k)

\* a message event of the platform: messageCreate runs to its first
\* blocking call
MessageCreate(h, m) ==
    /\ Running
    /\ FirstFree(h)
    /\ delivered < MaxMsgs
    /\ delivered' = delivered + 1
    /\ handlers' = [handlers EXCEPT
                       ![h] = [StartHandler(m) EXCEPT
                                 !.afterFailure = anyFailed]]
    /\ nOthers' = IF m.AuthorID # BotID THEN nOthers + 1 ELSE nOthers
    /\ UNCHANGED <<gateway, nSends, anyFailed>>
    /\ UNCHANGED mainVars

\* the platform delivers one of the bot's own messages back to it
EchoCreate(h) ==
    /\ Running
    /\ FirstFree(h)
    /\ gateway # <<>>
    /\ handlers' = [handlers EXCEPT
                       ![h] = [StartHandler(Head(gateway)) EXCEPT
                                 !.afterFailure = anyFailed]]
    /\ gateway' = Tail(gateway)
    /\ UNCHANGED <<delivered, nOthers, nSends, anyFailed>>
    /\ UNCHANGED mainVars

\* messageCreate, lines 182-191: getBibleVerse returns, the endpoint having
\* answered r
FetchDone(h, r) ==
    /\ Running
    /\ handlers[h].st = "fetching"
    /\ LET res == getBibleVerse(r)
       IN  /\ handlers' =
                 [handlers EXCEPT
                    ![h].resp = r, ![h].result = res, ![h].st = "sending",
                    ![h].todo = VerseReplies(res, handlers[h].msg.ChannelID)]
           /\ anyFailed' = (anyFailed \/ res.err # "")
    /\ UNCHANGED <<gateway, delivered, nOthers, nSends>>
    /\ UNCHANGED mainVars

\* SafeSend or SafeSendEmbed: the send is attempted and succeeds or fails
SendDone(h) ==
    /\ Running
    /\ handlers[h].st = "sending"
    /\ handlers[h].todo # <<>>
    /\ \E ok \in BOOLEAN :
          LET sd == Head(handlers[h].todo)
              rest == Tail(handlers[h].todo)
          IN  /\ handlers' =
                    [handlers EXCEPT
                       ![h].sends = Append(@, [send |-> sd, ok |-> ok]),
                       ![h].todo = rest,
                       ![h].st = IF rest = <<>> THEN "returned" ELSE "sending"]
              /\ gateway' =
                    IF ok
                    THEN Append(gateway, [AuthorID |-> BotID,
                                          ChannelID |-> sd.ChannelID,
                                          Content |-> sd.Content])
                    ELSE gateway
              /\ anyFailed' = (anyFailed \/ ~ok)
              /\ IF SafeSend(ok) = "fatal"
                 THEN pc' = "crashed"
                 ELSE pc' = pc
    /\ nSends' = nSends + 1
    /\ UNCHANGED <<delivered, nOthers>>
    /\ UNCHANGED <<env, envFile, config, configErr, logFlags, sessions, openCount,
                   closeCount, conn, sigBuffered, sigReceived, closeLogged>>

(***************************************************************************)
(* The whole program, from the start of the process.  One handler at a    *)
(* time and few inputs: the claims about main are checked here.           *)
(***************************************************************************)
LifeMessages ==
    { [AuthorID |-> "alice", ChannelID |-> "general",
       Content |-> Prefix \o CmdHello],
      [AuthorID |-> "alice", ChannelID |-> "general",
       Content |-> Prefix \o CmdVerse],
      [AuthorID |-> BotID, ChannelID |-> "general",
       Content |-> Prefix \o CmdHello] }

CoreResponses ==
    { r \in Responses :
        \/ r.getErr
        \/ /\ r.StatusCode \in {StatusOK, 404}
           /\ r.Body = [runs |-> <<Run("object", DocLen)>>, failAt |-> -1] }

Next ==
    \/ MainLoadConfig
    \/ MainNewSession
    \/ MainOpen
    \/ MainNotify
    \/ Signal
    \/ MainReceive
    \/ MainClose
    \/ \E m \in LifeMessages : MessageCreate(1, m)
    \/ EchoCreate(1)
    \/ \E r \in CoreResponses : FetchDone(1, r)
    \/ SendDone(1)

Spec == Init /\ [][Next]_vars

(***************************************************************************)
(* The running bot: the process has started and waits for its signal,     *)
(* while the SDK runs several handlers at the same time.                  *)
(***************************************************************************)
InitBot ==
    /\ pc = "waiting"
    /\ env = [k \in EnvKeys |-> IF k = "DISCORD_BOT_TOKEN" THEN "token" ELSE Unset]
    /\ envFile = [exists |-> TRUE, vars |-> [k \in EnvKeys |-> Unset]]
    /\ config = [DiscordToken |-> "token", Debug |-> FALSE]
    /\ configErr = ""
    /\ logFlags = configureLogging(FALSE)
    /\ sessions = 1
    /\ openCount = 1
    /\ closeCount = 0
    /\ conn = "Connected"
    /\ sigBuffered = FALSE
    /\ sigReceived = FALSE
    /\ closeLogged = FALSE
    /\ handlers = [h \in H |-> IdleHandler]
    /\ gateway = <<>>
    /\ delivered = 0
    /\ nOthers = 0
    /\ nSends = 0
    /\ anyFailed = FALSE

NextBot ==
    \/ \E h \in H : \E m \in Messages(CoreContents) : MessageCreate(h, m)
    \/ \E h \in H : EchoCreate(h)
    \/ \E h \in H : \E r \in CoreResponses : FetchDone(h, r)
    \/ \E h \in H : SendDone(h)

SpecBot == InitBot /\ [][NextBot]_vars

(***************************************************************************)
(* One message and one handler, with every content and every answer of    *)
(* the endpoint: the claims about what messageCreate and getBibleVerse    *)
(* compute are checked here.                                               *)
(***************************************************************************)
NextHandler ==
    \/ delivered = 0 /\ \E m \in Messages(AllContents) : MessageCreate(1, m)
    \/ EchoCreate(1)
    \/ \E r \in Responses : FetchDone(1, r)
    \/ SendDone(1)

SpecHandler == InitBot /\ [][NextHandler]_vars

(***************************************************************************)
(* The claims.                                                             *)
(***************************************************************************)
Bang == "!"

Token == "DISCORD_BOT_TOKEN"

\* the send attempts of an invocation, without their outcomes
Attempts(h) == [i \in 1..Len(handlers[h].sends) |-> handlers[h].sends[i].send]

IsText(sd, channel, text) ==
    /\ sd.kind = "text"
    /\ sd.ChannelID = channel
    /\ sd.Content = text
    /\ sd.Embed.Title = ""

IsCard(sd, channel) ==
    /\ sd.kind = "embed"
    /\ sd.ChannelID = channel
    /\ sd.Content = <<>>
    /\ sd.Embed.Title = EmbedTitle

\* C1: an invocation for a message of the bot's own id makes no send and no
\* fetch, whatever the content, and returns at once; with every sent message
\* delivered back to the bot, the send attempts never outnumber the messages
\* of other authors.
C1_SelfAuthoredNoSend ==
    /\ \A h \in H :
          (handlers[h].st # "idle" /\ handlers[h].msg.AuthorID = BotID)
          => /\ handlers[h].st = "returned"
             /\ handlers[h].sends = <<>>
             /\ handlers[h].todo = <<>>
             /\ ~handlers[h].fetched
    /\ nSends <= nOthers

\* a self-authored "!hello" was handled without a send while the echo of the
\* greeting sent to another author was handled without a send too
C1_Witness ==
    \E h, k \in H :
        /\ handlers[h].st = "returned"
        /\ handlers[h].msg.AuthorID = BotID
        /\ handlers[h].msg.Content = <<"!", "h", "e", "l", "l", "o">>
        /\ handlers[h].sends = <<>>
        /\ handlers[k].st = "returned"
        /\ handlers[k].msg.AuthorID = BotID
        /\ handlers[k].msg.Content = HelloText
        /\ handlers[k].sends = <<>>
        /\ nSends = 1
        /\ nOthers = 1

\* C2: an invocation for a message whose content does not begin with "!"
\* (the empty content and a "!" after whitespace included) makes no send and
\* does not call the verse provider.
C2_NoPrefixNoSend ==
    \A h \in H :
        LET c == handlers[h].msg.Content
        IN  (handlers[h].st # "idle" /\ (c = <<>> \/ c[1] # Bang))
            => /\ handlers[h].st = "returned"
               /\ handlers[h].sends = <<>>
               /\ handlers[h].todo = <<>>
               /\ ~handlers[h].fetched

\* " !hello" of another author was handled without a send
C2_Witness ==
    \E h \in H :
        /\ handlers[h].st = "returned"
        /\ handlers[h].msg.AuthorID = "alice"
        /\ handlers[h].msg.Content = <<" ", "!", "h", "e", "l", "l", "o">>
        /\ handlers[h].sends = <<>>
        /\ ~handlers[h].fetched

\* the message is of another author, begins with "!" and has a character
\* that is no whitespace after it
C3HasToken(m) ==
    /\ m.AuthorID # BotID
    /\ m.Content # <<>>
    /\ m.Content[1] = Bang
    /\ \E i \in 2..Len(m.Content) : ~IsSpace(m.Content[i])

\* C3: an invocation attempts at most one send, and every attempt goes to
\* the channel of its message; once it has returned it has made exactly one
\* attempt when the message is of another author, begins with the prefix and
\* has a token after it, and none otherwise.
C3_ZeroOrOneSend ==
    \A h \in H :
        LET r == handlers[h]
        IN  /\ Len(r.sends) + Len(r.todo) <= 1
            /\ \A i \in 1..Len(r.sends) :
                  r.sends[i].send.ChannelID = r.msg.ChannelID
            /\ r.st = "returned"
               => Len(r.sends) = IF C3HasToken(r.msg) THEN 1 ELSE 0
            /\ r.st \in {"fetching", "sending"} => C3HasToken(r.msg)
            /\ r.st = "sending" => Len(r.todo) = 1

\* "!verse" in the channel random, the fetch failed: one attempt, to random
C3_Witness ==
    \E h \in H :
        /\ handlers[h].st = "returned"
        /\ handlers[h].msg.ChannelID = "random"
        /\ handlers[h].fetched
        /\ handlers[h].result.err # ""
        /\ Len(handlers[h].sends) = 1
        /\ handlers[h].sends[1].send.ChannelID = "random"

\* the answer of the endpoint makes the fetch fail: the request failed, the
\* status is not 200, the stream fails at once, or the body is no JSON
\* object
C4FailingAnswer(r) ==
    \/ r.getErr
    \/ r.StatusCode # 200
    \/ r.Body.failAt = 0
    \/ r.Body.runs = <<>>
    \/ r.Body.runs[1].k \in {"garbage", "array"}

\* C4: an invocation of the verse command that has returned has made one
\* attempt: the apology text and no card when getBibleVerse returned an
\* error (as it does on a failed request, a status other than 200, a failed
\* read and a failed decode), a card and no apology when it succeeded; the
\* process goes on running.
C4_VerseReplyByOutcome ==
    /\ pc = "waiting"
    /\ \A h \in H :
          LET r == handlers[h]
          IN  (r.fetched /\ r.st = "returned")
              => /\ C4FailingAnswer(r.resp) => r.result.err # ""
                 /\ Len(r.sends) = 1
                 /\ IF r.result.err # ""
                    THEN IsText(r.sends[1].send, r.msg.ChannelID, ApologyText)
                    ELSE IsCard(r.sends[1].send, r.msg.ChannelID)

\* the endpoint answered 404: the apology was attempted, and its send failed
C4_Witness ==
    \E h \in H :
        /\ handlers[h].st = "returned"
        /\ handlers[h].fetched
        /\ handlers[h].resp.StatusCode = 404
        /\ Len(handlers[h].sends) = 1
        /\ handlers[h].sends[1].send.Content = ApologyText
        /\ ~handlers[h].sends[1].ok

\* C5: getBibleVerse returns an error whenever the response body is longer
\* than the limit of 10 KiB.
C5_OverLimitIsError ==
    \A h \in H :
        (/\ handlers[h].fetched
         /\ handlers[h].st \in {"sending", "returned"}
         /\ BodyLen(handlers[h].resp.Body.runs) > 10240)
        => handlers[h].result.err # ""

\* C6: with an empty or absent credential no session is created, the
\* connection is never opened, no handler runs and the process ends with
\* log.Fatalf once loadConfiguration has returned; a session or an open
\* implies that loadConfiguration returned a configuration with the
\* non-empty credential of the environment.
C6_NoCredentialNoConnection ==
    /\ Getenv(env, Token) = ""
       => /\ sessions = 0
          /\ openCount = 0
          /\ conn = "Disconnected"
          /\ \A h \in H : handlers[h].st = "idle"
          /\ configErr # ""
          /\ pc \in {"start", "fatal", "killed"}
          /\ configErr # "pending" => pc = "fatal"
    /\ (sessions > 0 \/ openCount > 0 \/ conn # "Disconnected")
       => /\ configErr = ""
          /\ config.DiscordToken # ""
          /\ config.DiscordToken = Getenv(env, Token)

\* the settings file was read, the credential is absent: the process ended
\* fatally with nothing opened
C6_Witness ==
    /\ pc = "fatal"
    /\ envFile.exists
    /\ env[Token] = Unset
    /\ configErr = "token"
    /\ openCount = 0

\* C7: whenever the credential is non-empty in the environment,
\* loadConfiguration returns a configuration, with or without a settings
\* file.
C7_SettingsFileOptional ==
    (configErr # "pending" /\ Getenv(env, Token) # "")
    => /\ configErr = ""
       /\ config.DiscordToken = Getenv(env, Token)
       /\ config.Debug = (Getenv(env, "DEBUG") = "true")

\* rest[i..j] is the first whitespace-delimited token of rest
C8FirstToken(rest, i, j) ==
    /\ i <= j
    /\ \A k \in 1..(i - 1) : IsSpace(rest[k])
    /\ \A k \in i..j : ~IsSpace(rest[k])
    /\ j = Len(rest) \/ IsSpace(rest[j + 1])

\* C8: for a message of another author that begins with "!", the first
\* whitespace-delimited token after that one "!" decides the single reply by
\* exact comparison: hello the greeting, ping the pong text, verse the verse
\* path, every other token the unknown-command text.
C8_ExactDispatch ==
    \A h \in H :
        LET r == handlers[h]
            c == r.msg.Content
            rest == SubSeq(c, 2, Len(c))
        IN  (/\ r.st = "returned"
             /\ r.msg.AuthorID # BotID
             /\ c # <<>>
             /\ c[1] = Bang)
            => \A i, j \in 1..Len(rest) :
                  C8FirstToken(rest, i, j)
                  => LET t == SubSeq(rest, i, j)
                     IN  /\ Len(r.sends) = 1
                         /\ t = <<"h", "e", "l", "l", "o">>
                            => /\ IsText(r.sends[1].send, r.msg.ChannelID,
                                         HelloText)
                               /\ ~r.fetched
                         /\ t = <<"p", "i", "n", "g">>
                            => /\ IsText(r.sends[1].send, r.msg.ChannelID,
                                         PongText)
                               /\ ~r.fetched
                         /\ t = <<"v", "e", "r", "s", "e">>
                            => /\ r.fetched
                               /\ \/ IsCard(r.sends[1].send, r.msg.ChannelID)
                                  \/ IsText(r.sends[1].send, r.msg.ChannelID,
                                            ApologyText)
                         /\ t \notin { <<"h", "e", "l", "l", "o">>,
                                       <<"p", "i", "n", "g">>,
                                       <<"v", "e", "r", "s", "e">> }
                            => /\ IsText(r.sends[1].send, r.msg.ChannelID,
                                         UnknownText)
                               /\ ~r.fetched

\* "!!hello": the token after one "!" is "!hello", the unknown-command text
\* was sent
C8_Witness ==
    \E h \in H :
        /\ handlers[h].st = "returned"
        /\ handlers[h].msg.AuthorID = "alice"
        /\ handlers[h].msg.Content = <<"!", "!", "h", "e", "l", "l", "o">>
        /\ Len(handlers[h].sends) = 1
        /\ handlers[h].sends[1].send.Content = UnknownText

\* C9: the connection is opened at most once and closed at most once; it is
\* Connected only between a successful open and the receipt of the signal,
\* Closing only between that receipt and the close; the close happens only
\* after main has received the signal on a run whose open succeeded; a
\* process that ended normally has closed exactly once (an error of the
\* close being logged); a process that ended with log.Fatalf was never
\* Connected and never closed.
C9_Lifecycle ==
    /\ openCount <= 1
    /\ closeCount <= 1
    /\ conn \in {"Disconnected", "Connected", "Closing"}
    /\ conn = "Connected"
       => openCount = 1 /\ closeCount = 0 /\ ~sigReceived
          /\ pc \in {"connected", "waiting", "killed"}
    /\ conn = "Closing" <=> pc = "closing"
    /\ pc = "closing" => sigReceived /\ openCount = 1 /\ closeCount = 0
    /\ closeCount = 1 => sigReceived /\ openCount = 1 /\ pc = "exited"
    /\ pc = "exited"
       => closeCount = 1 /\ openCount = 1 /\ sigReceived
          /\ conn = "Disconnected"
    /\ closeLogged => pc = "exited"
    /\ sigReceived => pc \in {"closing", "exited"}
    /\ pc = "fatal"
       => closeCount = 0 /\ conn = "Disconnected" /\ ~sigReceived
          /\ (configErr # "" => openCount = 0 /\ sessions = 0)
    /\ pc \in {"start", "configured", "session", "connected", "waiting",
               "closing", "exited", "fatal", "killed"}

\* the process ended normally after one close whose error was logged
C9_Witness ==
    /\ pc = "exited"
    /\ closeCount = 1
    /\ closeLogged
    /\ sigReceived
    /\ conn = "Disconnected"

\* the attempts the dispatch table gives for a message and a fetch outcome
C10Table(m, result) ==
    IF m.AuthorID = "alice" /\ m.Content = <<"!", "h", "e", "l", "l", "o">>
    THEN <<[kind |-> "text", ChannelID |-> m.ChannelID, Content |-> HelloText,
            Embed |-> NoEmbed]>>
    ELSE IF m.AuthorID = "alice" /\ m.Content = <<"!", "p", "i", "n", "g">>
    THEN <<[kind |-> "text", ChannelID |-> m.ChannelID, Content |-> PongText,
            Embed |-> NoEmbed]>>
    ELSE IF m.AuthorID = "alice" /\ m.Content = <<"!", "b", "o", "g", "u", "s">>
    THEN <<[kind |-> "text", ChannelID |-> m.ChannelID,
            Content |-> UnknownText, Embed |-> NoEmbed]>>
    ELSE IF m.AuthorID = "alice" /\ m.Content = <<"!", "v", "e", "r", "s", "e">>
    THEN IF result.err = ""
         THEN <<[kind |-> "embed", ChannelID |-> m.ChannelID,
                 Content |-> <<>>,
                 Embed |-> [Title |-> EmbedTitle, Color |-> EmbedColor,
                            Translation |-> result.verse.Translation,
                            RandomVerse |-> result.verse.RandomVerse]]>>
         ELSE <<[kind |-> "text", ChannelID |-> m.ChannelID,
                 Content |-> ApologyText, Embed |-> NoEmbed]>>
    ELSE <<>>

\* C10: whatever sends and fetches have failed before or fail meanwhile, the
\* process goes on running, no invocation is stuck, and an invocation that
\* has returned has attempted exactly what the dispatch table gives for its
\* own message and its own fetch outcome.
C10_ErrorsContained ==
    /\ pc = "waiting"
    /\ \A h \in H :
          LET r == handlers[h]
          IN  /\ r.st = "returned" => Attempts(h) = C10Table(r.msg, r.result)
              /\ r.st = "sending"
                 => Attempts(h) \o r.todo = C10Table(r.msg, r.result)
              /\ r.st = "sending" => r.todo # <<>>
              /\ r.st = "fetching" => r.sends = <<>>

\* after an earlier failure, "!hello" got its greeting while another
\* invocation, whose verse fetch failed, was still at its send
C10_Witness ==
    \E h, k \in H :
        /\ handlers[h].st = "returned"
        /\ handlers[h].afterFailure
        /\ handlers[h].msg.Content = <<"!", "h", "e", "l", "l", "o">>
        /\ Len(handlers[h].sends) = 1
        /\ handlers[h].sends[1].ok
        /\ handlers[h].sends[1].send.Content = HelloText
        /\ handlers[k].st = "sending"
        /\ handlers[k].result.err # ""
        /\ handlers[k].msg.ChannelID # handlers[h].msg.ChannelID

=============================================================================
